---- MODULE Spec2Model ----
(***************************************************************************)
(* Medical document ingestion pipeline of medassist-app                    *)
(* (server/medicalDocumentsRoutes.ts as recorded in src/replit.md):        *)
(* the Text Extractor, the Structured-Data Extractor, the orchestrator     *)
(* processDocument and the Upload / Reprocess / Delete / List / Get        *)
(* handlers over the medical_documents table and the uploads directory.    *)
(*                                                                         *)
(* Every `await` of a handler or of a pipeline run is a point where other  *)
(* handlers and runs interleave, so each action below is the code between  *)
(* two awaits, taken at the moment the awaited store operation is applied. *)
(***************************************************************************)
EXTENDS Integers, Sequences, FiniteSets, TLC

VARIABLES
    docs,    \* medical_documents: sequence of rows, a row's id is its index
    files,   \* uploads directory: the file behind each path
    runs,    \* processDocument invocations in flight, oldest first
    ups,     \* POST /upload handlers in flight
    reps,    \* POST /:id/reprocess handlers in flight
    dels,    \* DELETE /:id handlers in flight
    resp,    \* the HTTP answer sent by the step just taken, if it sent one
    call,    \* one Structured-Data Extractor call taken on its own
    ext      \* one Text Extractor call taken on its own

vars == <<docs, files, runs, ups, reps, dels, resp, call, ext>>

----------------------------------------------------------------------------
(* Bounds of the model *)

MaxDocs == 1        \* rows ever inserted
MaxRuns == 2        \* pipeline runs in flight, with the requests about to start one
MaxDelete == 1      \* Delete requests in flight
MaxUploads == 1     \* Upload requests in flight
MaxFiles == 2       \* files of one /upload-multiple request

----------------------------------------------------------------------------
(* Values *)

\* A nullable column or an optional field: <<>> is null, <<v>> holds v.
Null == <<>>
Some(v) == <<v>>
IsNull(x) == x = <<>>
Val(x) == x[1]

Remove(seq, i) == SubSeq(seq, 1, i - 1) \o SubSeq(seq, i + 1, Len(seq))

Users == {"u1", "u2"}
NoUser == ""

\* A text is its surrounding whitespace and the characters between; src
\* tells which extractor produced it.
Text(src, ws, body) == [src |-> src, ws |-> ws, body |-> body]
EmptyText == Text("", 0, 0)
Length(t) == t.ws + t.body
Trim(t) == IF t.body = 0 THEN EmptyText ELSE [t EXCEPT !.ws = 0]

\* String || String of the source: the left operand unless it is empty.
OrElse(a, b) == IF Length(a) > 0 THEN a ELSE b

\* A stored file: its size and what the PDF parser and the OCR engine read
\* from it. Missing is a path with no file behind it.
Missing == [size |-> 0, present |-> FALSE, emb |-> EmptyText, ocr |-> EmptyText]
File(size, embWs, embBody, ocrWs, ocrBody) ==
    [size |-> size, present |-> TRUE,
     emb |-> IF embWs + embBody = 0 THEN EmptyText ELSE Text("emb", embWs, embBody),
     ocr |-> IF ocrWs + ocrBody = 0 THEN EmptyText ELSE Text("ocr", ocrWs, ocrBody)]

----------------------------------------------------------------------------
(* Text Extractor *)

MinEmbeddedChars == 50
MinOcrChars == 20
MinTextChars == 10

ErrNotFound == "File not found on server"
ErrEmpty == "File is empty"
ErrPdfInsufficient == "Could not extract sufficient text. The document may be unreadable or contain only images without text."
ErrImageInsufficient == "Could not extract text from image. The image may be too blurry or contain no readable text."
ErrUnsupported == "Unsupported file type"

\* tried: the extraction methods that were run to get the result.
Result(text, method, error, tried) ==
    [text |-> text, method |-> method, error |-> error, tried |-> tried, thrown |-> FALSE]
\* An exception leaving the extractor (fs.statSync on a path with no file).
Thrown == [Result(EmptyText, "none", Null, {}) EXCEPT !.thrown = TRUE]

\* extractEmbeddedTextFromPDF: any failure of the read or the parse is "".
extractEmbeddedTextFromPDF(f) == IF f.present THEN f.emb ELSE EmptyText

\* extractTextFromImageOCR: any failure of the recognition is "".
extractTextFromImageOCR(f) == IF f.present THEN f.ocr ELSE EmptyText

\* The checks that open each path; Null when extraction may go on.
pdfPrecheck(f) ==
    IF ~f.present THEN Some(Thrown)                   \* statSync throws ENOENT
    ELSE IF f.size = 0 THEN Some(Result(EmptyText, "none", Some(ErrEmpty), {}))
    ELSE Null

imagePrecheck(f) ==
    IF ~f.present THEN Some(Result(EmptyText, "none", Some(ErrNotFound), {}))
    ELSE IF f.size = 0 THEN Some(Result(EmptyText, "none", Some(ErrEmpty), {}))
    ELSE Null

\* The thresholds taken as strict.
embeddedSufficientStrict(trimmedText) == Length(trimmedText) > MinEmbeddedChars
ocrSufficientStrict(trimmedOcrText) == Length(trimmedOcrText) > MinOcrChars

embeddedSufficient(trimmedText) == Length(trimmedText) >= MinEmbeddedChars
ocrSufficient(trimmedOcrText) == Length(trimmedOcrText) >= MinOcrChars

\* The PDF path after the embedded text was found too short.
pdfOcrFallback(trimmedText, ocrText) ==
    LET trimmedOcrText == Trim(ocrText) IN
    IF ocrSufficient(trimmedOcrText)
    THEN Result(trimmedOcrText, "ocr", Null, {"embedded_text", "ocr"})
    ELSE Result(OrElse(trimmedText, trimmedOcrText), "none", Some(ErrPdfInsufficient),
                {"embedded_text", "ocr"})

\* The image path after the checks.
imageOcr(ocrText) ==
    LET trimmedText == Trim(ocrText) IN
    IF ocrSufficient(trimmedText) THEN Result(trimmedText, "ocr", Null, {"ocr"})
    ELSE Result(trimmedText, "none", Some(ErrImageInsufficient), {"ocr"})

\* The part of each path that runs before the OCR engine is started: the
\* result when the path ends there, Null when OCR is needed.
pdfBegin(f) ==
    IF ~IsNull(pdfPrecheck(f)) THEN pdfPrecheck(f)
    ELSE LET trimmedText == Trim(extractEmbeddedTextFromPDF(f)) IN
         IF embeddedSufficient(trimmedText)
         THEN Some(Result(trimmedText, "embedded_text", Null, {"embedded_text"}))
         ELSE Null

imageBegin(f) == imagePrecheck(f)

\* f is the file when the function is entered, g the file when the OCR
\* engine opens it (the file may have been removed in between).
extractTextFromPDFWithFallback(f, g) ==
    IF ~IsNull(pdfBegin(f)) THEN Val(pdfBegin(f))
    ELSE pdfOcrFallback(Trim(extractEmbeddedTextFromPDF(f)), extractTextFromImageOCR(g))

extractTextFromImage(f, g) ==
    IF ~IsNull(imageBegin(f)) THEN Val(imageBegin(f))
    ELSE imageOcr(extractTextFromImageOCR(g))

\* mimeType.startsWith("image/")
isImage(mimeType) == mimeType \in {"image/jpeg", "image/jpg", "image/png", "image/gif"}

\* processDocument's choice of the path by MIME type (lines 580-588), up to
\* the start of OCR and from the OCR text on.
beginExtraction(mimeType, f) ==
    IF mimeType = "application/pdf" THEN pdfBegin(f)
    ELSE IF isImage(mimeType) THEN imageBegin(f)
    ELSE Some(Result(EmptyText, "none", Some(ErrUnsupported), {}))

endExtraction(mimeType, trimmedText, ocrText) ==
    IF mimeType = "application/pdf" THEN pdfOcrFallback(trimmedText, ocrText)
    ELSE imageOcr(ocrText)

extractText(mimeType, f, g) ==
    IF mimeType = "application/pdf" THEN extractTextFromPDFWithFallback(f, g)
    ELSE IF isImage(mimeType) THEN extractTextFromImage(f, g)
    ELSE Result(EmptyText, "none", Some(ErrUnsupported), {})

----------------------------------------------------------------------------
(* Structured-Data Extractor *)

maxRetries == 3
baseDelay == 5000

\* A JSON object the model answered with; a field the answer omits is Null.
Json(labs, meds, shortSummary, confidence) ==
    [isObject |-> TRUE, labs |-> labs, medsMentioned |-> meds,
     diagnosesMentioned |-> Null, followupStatements |-> Null,
     shortSummary |-> shortSummary, confidence |-> confidence]
\* The JSON text "null": it parses, to no object.
JsonNull == [Json(Null, Null, Null, Null) EXCEPT !.isObject = FALSE]

Number(tenths) == [isNumber |-> TRUE, tenths |-> tenths]
NotANumber == [isNumber |-> FALSE, tenths |-> 0]
DefaultConfidence == Number(5)

Hemoglobin == [testName |-> "Hemoglobin", value |-> "13.5", unit |-> "g/dL"]
FullJson == Json(Some(<<Hemoglobin>>), Some(<<>>), Some("Hemoglobin normal"), Some(Number(9)))
EmptyJson == Json(Null, Null, Null, Null)                        \* "{}"
OddJson == Json(Some(<<>>), Null, Some(""), Some(NotANumber))    \* confidence: "high"

\* What one generateContent call and the parse of its answer come to.
AIOk(json) == [kind |-> "ok", json |-> json, status |-> 0, msg429 |-> FALSE]
AIThrow(status, msg429) == [kind |-> "throw", json |-> JsonNull, status |-> status, msg429 |-> msg429]
RateLimit == AIThrow(429, FALSE)
QuotaMessage == AIThrow(0, TRUE)      \* an error whose message holds "429"
ServerError == AIThrow(500, FALSE)
BadJson == [AIThrow(0, FALSE) EXCEPT !.kind = "bad_json"]   \* JSON.parse throws
\* JSON.parse throws with "429" in its message: the message quotes the
\* position of the error, or the text at it.
BadJson429 == [AIThrow(0, TRUE) EXCEPT !.kind = "bad_json"]

\* The six "if (!parsed.x) parsed.x = ..." lines.
Backfill(parsed) ==
    [isObject |-> TRUE,
     labs |-> IF IsNull(parsed.labs) THEN Some(<<>>) ELSE parsed.labs,
     medsMentioned |-> IF IsNull(parsed.medsMentioned) THEN Some(<<>>) ELSE parsed.medsMentioned,
     diagnosesMentioned |-> IF IsNull(parsed.diagnosesMentioned) THEN Some(<<>>) ELSE parsed.diagnosesMentioned,
     followupStatements |-> IF IsNull(parsed.followupStatements) THEN Some(<<>>) ELSE parsed.followupStatements,
     shortSummary |-> IF IsNull(parsed.shortSummary) THEN Some("") ELSE parsed.shortSummary,
     confidence |-> IF IsNull(parsed.confidence) \/ ~Val(parsed.confidence).isNumber
                    THEN Some(DefaultConfidence) ELSE parsed.confidence]

\* 2^n, for the backoff.
RECURSIVE Pow2(_)
Pow2(n) == IF n = 0 THEN 1 ELSE 2 * Pow2(n - 1)

isRateLimited(o) == o.kind # "ok" /\ (o.status = 429 \/ o.msg429)

\* An attempt whose try block throws: the request fails, the answer is no
\* JSON, or it is JSON but no object (reading parsed.labs throws).
attemptThrows(o) == o.kind # "ok" \/ ~o.json.isObject

\* retryDelay without the doubling.
retryDelayFlat(attempt) == baseDelay

retryDelay(attempt) == baseDelay * Pow2(attempt - 1)

\* What a call of extractStructuredData comes to: the value returned, the AI
\* calls made, the waits taken, and whether it rejected instead of returning.
Outcome(data, calls, delays) ==
    [data |-> data, calls |-> calls, delays |-> delays, thrown |-> FALSE]
Rejected == [Outcome(Null, 0, <<>>) EXCEPT !.thrown = TRUE]

\* What the select on system_prompts comes to.
PromptQueries == {"row", "no row", "throws"}
DefaultPrompt == "DEFAULT_PROMPTS"
StoredPrompt == "promptText"
PromptError == "error"

\* getSystemPrompt that lets the select's error through.
getSystemPromptUncaught(query) ==
    IF query = "row" THEN StoredPrompt
    ELSE IF query = "no row" THEN DefaultPrompt
    ELSE PromptError

\* getSystemPrompt("document_extraction", language): the stored prompt, the
\* default when there is none, and the default when the select throws.
getSystemPrompt(query) ==
    IF query = "row" THEN StoredPrompt
    ELSE IF query = "no row" THEN DefaultPrompt
    ELSE DefaultPrompt

\* attemptLoop that also waits after a rate limit on the last attempt.
RECURSIVE attemptLoopWaitsLast(_, _, _)
attemptLoopWaitsLast(attempt, outcomes, delays) ==
    IF attempt > maxRetries THEN Outcome(Null, attempt - 1, delays)
    ELSE LET o == outcomes[attempt] IN
         IF ~attemptThrows(o) THEN Outcome(Some(Backfill(o.json)), attempt, delays)
         ELSE IF isRateLimited(o) /\ attempt <= maxRetries
              THEN attemptLoopWaitsLast(attempt + 1, outcomes,
                               Append(delays, [after |-> attempt, ms |-> retryDelay(attempt)]))
         ELSE IF attempt = maxRetries THEN Outcome(Null, attempt, delays)
         ELSE attemptLoopWaitsLast(attempt + 1, outcomes, delays)

\* The for loop from `attempt` on; outcomes[n] is what the n-th call comes to,
\* delays are the waits made so far, each with the attempt it followed.
RECURSIVE attemptLoop(_, _, _)
attemptLoop(attempt, outcomes, delays) ==
    IF attempt > maxRetries THEN Outcome(Null, attempt - 1, delays)
    ELSE LET o == outcomes[attempt] IN
         IF ~attemptThrows(o) THEN Outcome(Some(Backfill(o.json)), attempt, delays)
         ELSE IF isRateLimited(o) /\ attempt < maxRetries
              THEN attemptLoop(attempt + 1, outcomes,
                               Append(delays, [after |-> attempt, ms |-> retryDelay(attempt)]))
         ELSE IF attempt = maxRetries THEN Outcome(Null, attempt, delays)
         ELSE attemptLoop(attempt + 1, outcomes, delays)

\* extractStructuredData without the credential check.
extractStructuredDataAnyKey(rawText, hasKey, promptQuery, outcomes) ==
    IF Length(rawText) = 0 \/ Length(Trim(rawText)) < MinTextChars THEN Outcome(Null, 0, <<>>)
    ELSE attemptLoop(1, outcomes, <<>>)

\* extractStructuredData(rawText, docType, language) with the credential, the
\* prompt store's answer and the AI service's answers as further inputs. The
\* await of getSystemPrompt stands outside the try block.
extractStructuredData(rawText, hasKey, promptQuery, outcomes) ==
    IF Length(rawText) = 0 \/ Length(Trim(rawText)) < MinTextChars THEN Outcome(Null, 0, <<>>)
    ELSE IF ~hasKey THEN Outcome(Null, 0, <<>>)
    ELSE IF getSystemPrompt(promptQuery) = PromptError THEN Rejected
    ELSE attemptLoop(1, outcomes, <<>>)

----------------------------------------------------------------------------
(* Document Store and file store *)

ALLOWED_MIME_TYPES == {"application/pdf", "image/jpeg", "image/jpg", "image/png"}
validDocTypes == {"BLOOD_TEST", "IMAGING", "DOCTOR_NOTE", "OTHER"}

\* The row db.insert(medicalDocuments) creates; uploadedAt is the store's
\* clock, which orders rows as their ids do.
NewRow(id, userId, filename, storagePath, mimeType, sizeBytes, docType) ==
    [id |-> id, userId |-> userId, filename |-> filename, storagePath |-> storagePath,
     mimeType |-> mimeType, sizeBytes |-> sizeBytes, docType |-> docType,
     uploadedAt |-> id, deletedAt |-> Null,
     extractionStatus |-> "PENDING", extractedJson |-> Null, summaryText |-> Null]

\* Update that stamps uploadedAt anew on the rows it writes.
UpdateRestamped(table, id, set) ==
    [i \in DOMAIN table |->
        IF table[i].id = id
        THEN [c \in DOMAIN table[i] |-> IF c \in DOMAIN set THEN set[c]
                                        ELSE IF c = "uploadedAt" THEN 0 ELSE table[i][c]]
        ELSE table[i]]

\* db.update(medicalDocuments).set(set).where(eq(id, id))
Update(table, id, set) ==
    [i \in DOMAIN table |->
        IF table[i].id = id
        THEN [c \in DOMAIN table[i] |-> IF c \in DOMAIN set THEN set[c] ELSE table[i][c]]
        ELSE table[i]]

\* SelectOwned without the userId condition.
SelectAnyOwner(table, id, userId) ==
    {i \in DOMAIN table : table[i].id = id /\ IsNull(table[i].deletedAt)}

\* select().where(and(eq(id, id), eq(userId, userId), isNull(deletedAt)))
SelectOwned(table, id, userId) ==
    {i \in DOMAIN table :
        table[i].id = id /\ table[i].userId = userId /\ IsNull(table[i].deletedAt)}

existsSync(path) == files[path].present

\* The names diskStorage may give a new file: a name is never given twice
\* while a file, a row or a request holds it.
Paths == 1..(MaxDocs + MaxUploads)
\* The names an upload request in flight holds: one for /upload, one for each
\* file for /upload-multiple.
HeldBy(handler) ==
    IF handler.route = "/upload" THEN {handler.path}
    ELSE {handler.paths[k] : k \in DOMAIN handler.paths}
FreePaths ==
    {p \in Paths : /\ ~files[p].present
                   /\ \A i \in DOMAIN docs : docs[i].storagePath # p
                   /\ \A i \in DOMAIN ups : p \notin HeldBy(ups[i])}

\* unlinkSync that removes nothing.
unlinkSyncNothing(store, paths) == store

\* fs.unlinkSync on each of the paths.
unlinkSync(store, paths) ==
    [p \in DOMAIN store |-> IF p \in paths THEN Missing ELSE store[p]]

----------------------------------------------------------------------------
(* HTTP answers *)

\* An answer with the request it answers: the operation, the caller and the
\* :id of the path (0 where the path has none).
Answer(op, userId, id, status, message, documents) ==
    [op |-> op, userId |-> userId, id |-> id, status |-> status, message |-> message,
     documents |-> documents]
NoAnswer == Answer("", "", 0, 0, "", <<>>)

----------------------------------------------------------------------------
(* Orchestrator: processDocument *)

MsgNoText == "Could not extract text from document"
MsgAIFailed == "AI quota exceeded. Please try again later or check your Gemini API billing."
MsgUnexpected == "An unexpected error occurred during processing"

SetProcessing == [extractionStatus |-> "PROCESSING"]
\* SetFailed that leaves summaryText as it is.
SetFailedStatusOnly(message) == [extractionStatus |-> "FAILED"]
SetFailed(message) == [extractionStatus |-> "FAILED", summaryText |-> Some(message)]
\* JSON.stringify({...extractedData, extractionMethod})
Stringify(extractedData, method) == [data |-> extractedData, extractionMethod |-> method]
\* SetSuccess that leaves summaryText to a later update.
SetSuccessNoSummary(extractedData, method) ==
    [extractionStatus |-> "SUCCESS",
     extractedJson |-> Some(Stringify(extractedData, method))]

SetSuccess(extractedData, method) ==
    [extractionStatus |-> "SUCCESS",
     extractedJson |-> Some(Stringify(extractedData, method)),
     summaryText |-> extractedData.shortSummary]

\* A run as processDocument(...) is called: the PROCESSING update is issued.
NewRun(documentId, filePath, mimeType, docType, by) ==
    [doc |-> documentId, filePath |-> filePath, mimeType |-> mimeType, docType |-> docType,
     by |-> by, pc |-> "processing", trimmedText |-> EmptyText, method |-> "none",
     set |-> SetProcessing, inCatch |-> FALSE]

\* The catch block of processDocument: the FAILED update is issued.
catch(run) == [run EXCEPT !.pc = "write", !.set = SetFailed(MsgUnexpected), !.inCatch = TRUE]

\* afterExtraction that goes on to the Structured-Data Extractor whatever the
\* result.
afterExtractionAlwaysAI(run, extractionResult) ==
    IF extractionResult.thrown THEN catch(run)
    ELSE [run EXCEPT !.pc = "ai", !.trimmedText = extractionResult.text,
                     !.method = extractionResult.method]

\* Lines 592-607: what follows the Text Extractor's result.
afterExtraction(run, extractionResult) ==
    IF extractionResult.thrown THEN catch(run)
    ELSE IF extractionResult.method = "none" \/ Length(extractionResult.text) < MinTextChars
    THEN [run EXCEPT !.pc = "write",
                     !.set = SetFailed(IF IsNull(extractionResult.error) THEN MsgNoText
                                       ELSE Val(extractionResult.error))]
    ELSE [run EXCEPT !.pc = "ai", !.trimmedText = extractionResult.text,
                     !.method = extractionResult.method]

\* afterStructured that treats a null answer as an unexpected error.
afterStructuredUnexpected(run, extractedData) ==
    IF ~IsNull(extractedData)
    THEN [run EXCEPT !.pc = "write", !.set = SetSuccess(Val(extractedData), run.method)]
    ELSE [run EXCEPT !.pc = "write", !.set = SetFailed(MsgUnexpected)]

\* Lines 607-633: what follows the Structured-Data Extractor's answer.
afterStructured(run, extractedData) ==
    IF ~IsNull(extractedData)
    THEN [run EXCEPT !.pc = "write", !.set = SetSuccess(Val(extractedData), run.method)]
    ELSE [run EXCEPT !.pc = "write", !.set = SetFailed(MsgAIFailed)]

\* The first update of the run is applied by the store.
RunSetProcessing(r) ==
    /\ r \in DOMAIN runs
    /\ runs[r].pc = "processing"
    /\ docs' = Update(docs, runs[r].doc, runs[r].set)
    /\ runs' = [runs EXCEPT ![r].pc = "extract"]
    /\ resp' = NoAnswer
    /\ UNCHANGED <<files, ups, reps, dels, call, ext>>

\* Lines 578-590 up to the start of OCR.
RunExtract(r) ==
    /\ r \in DOMAIN runs
    /\ runs[r].pc = "extract"
    /\ LET f == files[runs[r].filePath]
           begun == beginExtraction(runs[r].mimeType, f)
       IN runs' = [runs EXCEPT ![r] =
                     IF ~IsNull(begun) THEN afterExtraction(runs[r], Val(begun))
                     ELSE [runs[r] EXCEPT !.pc = "ocr",
                                          !.trimmedText = Trim(extractEmbeddedTextFromPDF(f))]]
    /\ resp' = NoAnswer
    /\ UNCHANGED <<docs, files, ups, reps, dels, call, ext>>

\* The OCR engine reads the file and the path it serves ends.
RunOcr(r) ==
    /\ r \in DOMAIN runs
    /\ runs[r].pc = "ocr"
    /\ LET ocrText == extractTextFromImageOCR(files[runs[r].filePath])
           extractionResult == endExtraction(runs[r].mimeType, runs[r].trimmedText, ocrText)
       IN runs' = [runs EXCEPT ![r] = afterExtraction(runs[r], extractionResult)]
    /\ resp' = NoAnswer
    /\ UNCHANGED <<docs, files, ups, reps, dels, call, ext>>

\* What the AI service answers to the calls of one run.
ServiceAnswers ==
    { <<AIOk(FullJson), AIOk(FullJson), AIOk(FullJson)>>,
      <<RateLimit, RateLimit, RateLimit>> }

\* extractStructuredData returns to the run.
RunStructured(r) ==
    /\ r \in DOMAIN runs
    /\ runs[r].pc = "ai"
    /\ \E outcomes \in ServiceAnswers, promptQuery \in PromptQueries :
         LET returned == extractStructuredData(runs[r].trimmedText, TRUE, promptQuery, outcomes)
         IN runs' = [runs EXCEPT ![r] =
                       IF returned.thrown THEN catch(runs[r])
                       ELSE afterStructured(runs[r], returned.data)]
    /\ resp' = NoAnswer
    /\ UNCHANGED <<docs, files, ups, reps, dels, call, ext>>

\* RunWrite whose update leaves a soft-deleted row alone.
RunWriteSkipsDeleted(r) ==
    /\ r \in DOMAIN runs
    /\ runs[r].pc = "write"
    /\ docs' = IF IsNull(docs[runs[r].doc].deletedAt)
               THEN Update(docs, runs[r].doc, runs[r].set) ELSE docs
    /\ runs' = Remove(runs, r)
    /\ resp' = NoAnswer
    /\ UNCHANGED <<files, ups, reps, dels, call, ext>>

\* The run's last update is applied by the store and the run ends.
RunWrite(r) ==
    /\ r \in DOMAIN runs
    /\ runs[r].pc = "write"
    /\ docs' = Update(docs, runs[r].doc, runs[r].set)
    /\ runs' = Remove(runs, r)
    /\ resp' = NoAnswer
    /\ UNCHANGED <<files, ups, reps, dels, call, ext>>

\* An update of the run is refused by the store (the awaited promise
\* rejects): inside the try block the catch block takes over, inside the
\* catch block the rejection leaves processDocument and the run ends.
RunUpdateThrows(r) ==
    /\ r \in DOMAIN runs
    /\ runs[r].pc \in {"processing", "write"}
    /\ runs' = IF runs[r].inCatch THEN Remove(runs, r)
               ELSE [runs EXCEPT ![r] = catch(runs[r])]
    /\ resp' = NoAnswer
    /\ UNCHANGED <<docs, files, ups, reps, dels, call, ext>>

----------------------------------------------------------------------------
(* Upload *)

MAX_FILE_SIZE == 10485760

\* A multipart file as multer sees it, and the form around it.
Upload(originalname, mimetype, content) ==
    [originalname |-> originalname, mimetype |-> mimetype, content |-> content]
Form(userId, docType, file) == [userId |-> userId, docType |-> docType, file |-> file]

TextPdf == File(2048, 2, 50, 0, 0)       \* a text layer of exactly 50 characters
ScanPdf == File(2048, 1, 49, 3, 20)      \* 49 embedded characters, OCR reads 20
BlankImage == File(2048, 0, 0, 0, 0)     \* OCR reads nothing
EmptyFile == File(0, 0, 0, 0, 0)
HugeFile == File(MAX_FILE_SIZE + 1, 0, 50, 0, 0)

UploadForms ==
    { Form("u1", "BLOOD_TEST", Some(Upload("labs.pdf", "application/pdf", TextPdf))),
      Form("u1", "XRAY", Some(Upload("scan.pdf", "application/pdf", ScanPdf))),
      Form("u1", "IMAGING", Some(Upload("blank.png", "image/png", BlankImage))),
      Form("u1", "OTHER", Some(Upload("empty.pdf", "application/pdf", EmptyFile))),
      Form(NoUser, "OTHER", Some(Upload("labs.pdf", "application/pdf", TextPdf))),
      Form("u1", "OTHER", Some(Upload("notes.txt", "text/plain", TextPdf))),
      Form("u1", "OTHER", Some(Upload("huge.pdf", "application/pdf", HugeFile))),
      Form("u1", "OTHER", Null) }

Handler(form, path) == [route |-> "/upload", form |-> form, path |-> path]

\* Uploads in flight that will insert a row.
Inserting == {i \in DOMAIN ups : /\ ups[i].route = "/upload"
                                 /\ ~IsNull(ups[i].form.file)
                                 /\ ups[i].form.userId # NoUser}

\* Room for one more pipeline run, counting the requests about to start one.
RoomForRun == Len(runs) + Len(reps) + Cardinality(Inserting) < MaxRuns

\* multer: fileFilter, the size limit, diskStorage under a fresh random name;
\* handleMulterError answers what multer refuses.
UploadReceive(form) ==
    /\ Len(ups) < MaxUploads
    /\ IF IsNull(form.file)
       THEN /\ ups' = Append(ups, Handler(form, 0))
            /\ resp' = NoAnswer
            /\ files' = files
       ELSE LET file == Val(form.file) IN
            IF file.mimetype \notin ALLOWED_MIME_TYPES
            THEN /\ resp' = Answer("upload", form.userId, 0, 415, "INVALID_FILE_TYPE", <<>>)
                 /\ UNCHANGED <<ups, files>>
            ELSE IF file.content.size > MAX_FILE_SIZE
            THEN /\ resp' = Answer("upload", form.userId, 0, 413, "FILE_TOO_LARGE", <<>>)
                 /\ UNCHANGED <<ups, files>>
            ELSE /\ FreePaths # {}
                 /\ form.userId # NoUser =>
                        Len(docs) + Cardinality(Inserting) < MaxDocs /\ RoomForRun
                 /\ LET path == CHOOSE p \in FreePaths : \A q \in FreePaths : p <= q IN
                    /\ ups' = Append(ups, Handler(form, path))
                    /\ files' = [files EXCEPT ![path] = file.content]
                 /\ resp' = NoAnswer
    /\ UNCHANGED <<docs, runs, reps, dels, call, ext>>

\* Uploaded that reports the status a finished run leaves.
UploadedAfterRun(document) ==
    [id |-> document.id, filename |-> document.filename, docType |-> document.docType,
     extractionStatus |-> "SUCCESS", uploadedAt |-> document.uploadedAt]

\* The columns the upload answer reports.
Uploaded(document) ==
    [id |-> document.id, filename |-> document.filename, docType |-> document.docType,
     extractionStatus |-> document.extractionStatus, uploadedAt |-> document.uploadedAt]

\* router.post("/upload"): the checks, the insert, the detached
\* processDocument call and the answer.
UploadHandle(i) ==
    /\ i \in DOMAIN ups
    /\ ups[i].route = "/upload"
    /\ LET form == ups[i].form IN
       IF IsNull(form.file)
       THEN /\ resp' = Answer("upload", form.userId, 0, 400, "NO_FILE", <<>>)
            /\ UNCHANGED <<docs, files, runs>>
       ELSE IF form.userId = NoUser
       THEN /\ files' = unlinkSync(files, {ups[i].path})
            /\ resp' = Answer("upload", form.userId, 0, 400, "MISSING_USER_ID", <<>>)
            /\ UNCHANGED <<docs, runs>>
       ELSE LET file == Val(form.file)
                selectedDocType == IF form.docType \in validDocTypes THEN form.docType ELSE "OTHER"
                document == NewRow(Len(docs) + 1, form.userId, file.originalname, ups[i].path,
                                   file.mimetype, file.content.size, selectedDocType)
            IN /\ docs' = Append(docs, document)
               /\ runs' = Append(runs, NewRun(document.id, ups[i].path, file.mimetype,
                                              selectedDocType, "upload"))
               /\ resp' = Answer("upload", form.userId, 0, 200, "", <<Uploaded(document)>>)
               /\ files' = files
    /\ ups' = Remove(ups, i)
    /\ UNCHANGED <<reps, dels, call, ext>>

\* A multipart form of /upload-multiple: the files multer has accepted.
MultiForm(userId, docType, uploads) == [userId |-> userId, docType |-> docType, files |-> uploads]

FileLists ==
    UNION {[1..n -> {Upload("labs.pdf", "application/pdf", TextPdf),
                     Upload("blank.png", "image/png", BlankImage)}] : n \in 0..MaxFiles}
MultiForms == {MultiForm(userId, "IMAGING", uploads) : userId \in {"u1", NoUser},
                                                       uploads \in FileLists}

MultiHandler(form, paths, uploadedDocuments) ==
    [route |-> "/upload-multiple", form |-> form, paths |-> paths,
     uploadedDocuments |-> uploadedDocuments]

\* The n smallest of the names in free, in order.
RECURSIVE Fresh(_, _)
Fresh(n, free) ==
    IF n = 0 THEN <<>>
    ELSE LET path == CHOOSE p \in free : \A q \in free : p <= q
         IN <<path>> \o Fresh(n - 1, free \ {path})

\* multer (uploadMultiple.array) stores every file of the form under a fresh
\* name.
UploadMultipleReceive(form) ==
    /\ Len(ups) < MaxUploads
    /\ Cardinality(FreePaths) >= Len(form.files)
    /\ LET paths == Fresh(Len(form.files), FreePaths) IN
       /\ files' = [p \in Paths |->
                       IF \E k \in DOMAIN paths : paths[k] = p
                       THEN form.files[CHOOSE k \in DOMAIN paths : paths[k] = p].content
                       ELSE files[p]]
       /\ ups' = Append(ups, MultiHandler(form, paths, <<>>))
    /\ resp' = NoAnswer
    /\ UNCHANGED <<docs, runs, reps, dels, call, ext>>

\* router.post("/upload-multiple") from one await to the next: the checks
\* with the first step, then for one file the insert, the detached
\* processDocument call and the push, and after the last file the answer.
UploadMultipleStep(i) ==
    /\ i \in DOMAIN ups
    /\ ups[i].route = "/upload-multiple"
    /\ LET form == ups[i].form
           k == Len(ups[i].uploadedDocuments) + 1
       IN
       IF Len(form.files) = 0
       THEN /\ resp' = Answer("upload-multiple", form.userId, 0, 400, "NO_FILES", <<>>)
            /\ ups' = Remove(ups, i)
            /\ UNCHANGED <<docs, files, runs>>
       ELSE IF form.userId = NoUser
       THEN /\ files' = unlinkSync(files, HeldBy(ups[i]))
            /\ resp' = Answer("upload-multiple", form.userId, 0, 400, "MISSING_USER_ID", <<>>)
            /\ ups' = Remove(ups, i)
            /\ UNCHANGED <<docs, runs>>
       ELSE LET file == form.files[k]
                selectedDocType == IF form.docType \in validDocTypes THEN form.docType ELSE "OTHER"
                document == NewRow(Len(docs) + 1, form.userId, file.originalname,
                                   ups[i].paths[k], file.mimetype, file.content.size,
                                   selectedDocType)
                uploadedDocuments == Append(ups[i].uploadedDocuments, Uploaded(document))
            IN /\ docs' = Append(docs, document)
               /\ runs' = Append(runs, NewRun(document.id, ups[i].paths[k], file.mimetype,
                                              selectedDocType, "upload"))
               /\ files' = files
               /\ IF k = Len(form.files)
                  THEN /\ resp' = Answer("upload-multiple", form.userId, 0, 200, "",
                                         uploadedDocuments)
                       /\ ups' = Remove(ups, i)
                  ELSE /\ resp' = NoAnswer
                       /\ ups' = [ups EXCEPT ![i].uploadedDocuments = uploadedDocuments]
    /\ UNCHANGED <<reps, dels, call, ext>>

----------------------------------------------------------------------------
(* Reprocess and Delete *)

Request(userId, id, pc, document) ==
    [userId |-> userId, id |-> id, pc |-> pc, document |-> document]

DocIds == 1..MaxDocs

\* SetPending that leaves the payload of the last run on the row.
SetPendingStatusOnly == [extractionStatus |-> "PENDING"]

SetPending == [extractionStatus |-> "PENDING", extractedJson |-> Null, summaryText |-> Null]

\* ReprocessSelect that refuses a document not yet processed as well.
ReprocessSelectPendingRefused(userId, id) ==
    /\ LET found == SelectOwned(docs, id, userId) IN
       IF userId = NoUser
       THEN /\ resp' = Answer("reprocess", userId, id, 400, "User ID is required", <<>>)
            /\ reps' = reps
       ELSE IF found = {}
       THEN /\ resp' = Answer("reprocess", userId, id, 404, "Document not found", <<>>)
            /\ reps' = reps
       ELSE LET document == docs[CHOOSE i \in found : TRUE] IN
            IF document.extractionStatus \in {"PENDING", "PROCESSING"}
            THEN /\ resp' = Answer("reprocess", userId, id, 400,
                                   "Document is already being processed", <<>>)
                 /\ reps' = reps
            ELSE /\ RoomForRun
                 /\ reps' = Append(reps, Request(userId, id, "selected", document))
                 /\ resp' = NoAnswer
    /\ UNCHANGED <<docs, files, runs, ups, dels, call, ext>>

\* ReprocessSelect without the check of lines 961-963.
ReprocessSelectUnchecked(userId, id) ==
    /\ LET found == SelectOwned(docs, id, userId) IN
       IF userId = NoUser
       THEN /\ resp' = Answer("reprocess", userId, id, 400, "User ID is required", <<>>)
            /\ reps' = reps
       ELSE IF found = {}
       THEN /\ resp' = Answer("reprocess", userId, id, 404, "Document not found", <<>>)
            /\ reps' = reps
       ELSE LET document == docs[CHOOSE i \in found : TRUE] IN
            /\ RoomForRun
            /\ reps' = Append(reps, Request(userId, id, "selected", document))
            /\ resp' = NoAnswer
    /\ UNCHANGED <<docs, files, runs, ups, dels, call, ext>>

\* router.post("/:id/reprocess"), lines 939-963: the select and the checks
\* made on the row it returned.
ReprocessSelect(userId, id) ==
    /\ LET found == SelectOwned(docs, id, userId) IN
       IF userId = NoUser
       THEN /\ resp' = Answer("reprocess", userId, id, 400, "User ID is required", <<>>)
            /\ reps' = reps
       ELSE IF found = {}
       THEN /\ resp' = Answer("reprocess", userId, id, 404, "Document not found", <<>>)
            /\ reps' = reps
       ELSE LET document == docs[CHOOSE i \in found : TRUE] IN
            IF document.extractionStatus = "PROCESSING"
            THEN /\ resp' = Answer("reprocess", userId, id, 400,
                                   "Document is already being processed", <<>>)
                 /\ reps' = reps
            ELSE /\ RoomForRun
                 /\ reps' = Append(reps, Request(userId, id, "selected", document))
                 /\ resp' = NoAnswer
    /\ UNCHANGED <<docs, files, runs, ups, dels, call, ext>>

\* ReprocessCheckFile without the check of lines 965-967.
ReprocessCheckFileSkipped(h) ==
    /\ h \in DOMAIN reps
    /\ reps[h].pc = "selected"
    /\ reps' = [reps EXCEPT ![h].pc = "updating"]
    /\ resp' = NoAnswer
    /\ UNCHANGED <<docs, files, runs, ups, dels, call, ext>>

\* Lines 965-976: the file check, after which the reset is issued.
ReprocessCheckFile(h) ==
    /\ h \in DOMAIN reps
    /\ reps[h].pc = "selected"
    /\ IF ~existsSync(reps[h].document.storagePath)
       THEN /\ reps' = Remove(reps, h)
            /\ resp' = Answer("reprocess", reps[h].userId, reps[h].id, 404,
                              "Original file not found on server", <<>>)
       ELSE /\ reps' = [reps EXCEPT ![h].pc = "updating"]
            /\ resp' = NoAnswer
    /\ UNCHANGED <<docs, files, runs, ups, dels, call, ext>>

\* ReprocessReset without the processDocument call of lines 978-984.
ReprocessResetOnly(h) ==
    /\ h \in DOMAIN reps
    /\ reps[h].pc = "updating"
    /\ docs' = Update(docs, reps[h].id, SetPending)
    /\ reps' = Remove(reps, h)
    /\ resp' = Answer("reprocess", reps[h].userId, reps[h].id, 200,
                      "Document reprocessing started", <<>>)
    /\ UNCHANGED <<files, runs, ups, dels, call, ext>>

\* Lines 969-991: the reset is applied, processDocument is called detached,
\* the request is answered.
ReprocessReset(h) ==
    /\ h \in DOMAIN reps
    /\ reps[h].pc = "updating"
    /\ LET document == reps[h].document IN
       /\ docs' = Update(docs, reps[h].id, SetPending)
       /\ runs' = Append(runs, NewRun(document.id, document.storagePath, document.mimeType,
                                      document.docType, "reprocess"))
    /\ reps' = Remove(reps, h)
    /\ resp' = Answer("reprocess", reps[h].userId, reps[h].id, 200,
                      "Document reprocessing started", <<>>)
    /\ UNCHANGED <<files, ups, dels, call, ext>>

\* router.delete("/:id"), lines 1038-1059.
DeleteSelect(userId, id) ==
    /\ LET found == SelectOwned(docs, id, userId) IN
       IF userId = NoUser
       THEN /\ resp' = Answer("delete", userId, id, 400, "User ID is required", <<>>)
            /\ dels' = dels
       ELSE IF found = {}
       THEN /\ resp' = Answer("delete", userId, id, 404, "Document not found", <<>>)
            /\ dels' = dels
       ELSE /\ Len(dels) < MaxDelete
            /\ dels' = Append(dels, Request(userId, id, "updating", docs[CHOOSE i \in found : TRUE]))
            /\ resp' = NoAnswer
    /\ UNCHANGED <<docs, files, runs, ups, reps, call, ext>>

\* Lines 1061-1064: deletedAt is set.
DeleteUpdate(h) ==
    /\ h \in DOMAIN dels
    /\ dels[h].pc = "updating"
    /\ docs' = Update(docs, dels[h].id, [deletedAt |-> Some("date")])
    /\ dels' = [dels EXCEPT ![h].pc = "unlinking"]
    /\ resp' = NoAnswer
    /\ UNCHANGED <<files, runs, ups, reps, call, ext>>

\* DeleteUnlink that answers with an error when the file could not be removed.
DeleteUnlinkSurfaced(h) ==
    /\ h \in DOMAIN dels
    /\ dels[h].pc = "unlinking"
    /\ LET path == dels[h].document.storagePath IN
       \E unlinked \in BOOLEAN :
          /\ files' = IF existsSync(path) /\ unlinked
                      THEN [files EXCEPT ![path] = Missing] ELSE files
          /\ resp' = Answer("delete", dels[h].userId, dels[h].id,
                            IF unlinked THEN 200 ELSE 500, "", <<>>)
    /\ dels' = Remove(dels, h)
    /\ UNCHANGED <<docs, runs, ups, reps, call, ext>>

\* Lines 1066-1074: the file is removed if it can be; the answer is success
\* either way.
DeleteUnlink(h) ==
    /\ h \in DOMAIN dels
    /\ dels[h].pc = "unlinking"
    /\ LET path == dels[h].document.storagePath IN
       \E unlinked \in BOOLEAN :
          files' = IF existsSync(path) /\ unlinked
                   THEN [files EXCEPT ![path] = Missing] ELSE files
    /\ dels' = Remove(dels, h)
    /\ resp' = Answer("delete", dels[h].userId, dels[h].id, 200, "", <<>>)
    /\ UNCHANGED <<docs, runs, ups, reps, call, ext>>

----------------------------------------------------------------------------
(* Queries *)

\* JSON.parse of the stored extractedJson.
Parse(json) == [extractionMethod |-> json.extractionMethod] @@ json.data

\* The rows of a set of ids, newest first (orderBy(desc(uploadedAt))).
RECURSIVE NewestFirst(_, _)
NewestFirst(table, ids) ==
    IF ids = {} THEN <<>>
    ELSE LET newest == CHOOSE i \in ids : \A j \in ids : table[j].uploadedAt <= table[i].uploadedAt
         IN <<table[newest]>> \o NewestFirst(table, ids \ {newest})

\* The columns GET / selects.
Listed(row) ==
    [id |-> row.id, filename |-> row.filename, docType |-> row.docType,
     sizeBytes |-> row.sizeBytes, uploadedAt |-> row.uploadedAt,
     extractionStatus |-> row.extractionStatus, summaryText |-> row.summaryText]

\* The document GET /:id answers with.
Detailed(row) ==
    [id |-> row.id, filename |-> row.filename, docType |-> row.docType,
     mimeType |-> row.mimeType, sizeBytes |-> row.sizeBytes, uploadedAt |-> row.uploadedAt,
     extractionStatus |-> row.extractionStatus,
     extractedData |-> IF IsNull(row.extractedJson) THEN Null
                       ELSE Some(Parse(Val(row.extractedJson))),
     summaryText |-> row.summaryText]

\* router.get("/")
List(userId) ==
    /\ resp' = IF userId = NoUser THEN Answer("list", userId, 0, 400, "User ID is required", <<>>)
               ELSE LET rows == NewestFirst(docs, {i \in DOMAIN docs :
                                    docs[i].userId = userId /\ IsNull(docs[i].deletedAt)})
                    IN Answer("list", userId, 0, 200, "", [k \in DOMAIN rows |-> Listed(rows[k])])
    /\ UNCHANGED <<docs, files, runs, ups, reps, dels, call, ext>>

\* router.get("/:id")
Get(userId, id) ==
    /\ resp' = IF userId = NoUser THEN Answer("get", userId, id, 400, "User ID is required", <<>>)
               ELSE LET found == SelectOwned(docs, id, userId) IN
                    IF found = {} THEN Answer("get", userId, id, 404, "Document not found", <<>>)
                    ELSE Answer("get", userId, id, 200, "",
                                <<Detailed(docs[CHOOSE i \in found : TRUE])>>)
    /\ UNCHANGED <<docs, files, runs, ups, reps, dels, call, ext>>

\* What GET /:id/file streams: the stored file under the row's type and name.
Streamed(row) ==
    [mimeType |-> row.mimeType, filename |-> row.filename, content |-> files[row.storagePath]]

\* router.get("/:id/file")
GetFile(userId, id) ==
    /\ resp' = IF userId = NoUser THEN Answer("file", userId, id, 400, "User ID is required", <<>>)
               ELSE LET found == SelectOwned(docs, id, userId) IN
                    IF found = {} THEN Answer("file", userId, id, 404, "Document not found", <<>>)
                    ELSE LET document == docs[CHOOSE i \in found : TRUE] IN
                         IF ~existsSync(document.storagePath)
                         THEN Answer("file", userId, id, 404, "File not found on server", <<>>)
                         ELSE Answer("file", userId, id, 200, "", <<Streamed(document)>>)
    /\ UNCHANGED <<docs, files, runs, ups, reps, dels, call, ext>>

----------------------------------------------------------------------------
(* The pipeline and its API *)

NoCall == [pc |-> "idle"]
NoExt == [pc |-> "idle"]

Init ==
    /\ docs = <<>>
    /\ files = [p \in Paths |-> Missing]
    /\ runs = <<>>
    /\ ups = <<>>
    /\ reps = <<>>
    /\ dels = <<>>
    /\ resp = NoAnswer
    /\ call = NoCall
    /\ ext = NoExt

\* The requests the pipeline is followed under: the forms Upload accepts and
\* the owner of the documents as caller. A request Upload refuses, a caller
\* who owns nothing and a caller with no id change nothing but their answer.
AcceptedForms == {form \in UploadForms :
                    /\ ~IsNull(form.file)
                    /\ form.userId # NoUser
                    /\ Val(form.file).mimetype \in ALLOWED_MIME_TYPES
                    /\ Val(form.file).content.size <= MAX_FILE_SIZE}
Owners == {form.userId : form \in AcceptedForms}
Callers == Users \cup {NoUser}

Next ==
    \/ \E form \in AcceptedForms : UploadReceive(form)
    \/ \E i \in DOMAIN ups : UploadHandle(i)
    \/ \E r \in DOMAIN runs : RunSetProcessing(r)
    \/ \E r \in DOMAIN runs : RunExtract(r)
    \/ \E r \in DOMAIN runs : RunOcr(r)
    \/ \E r \in DOMAIN runs : RunStructured(r)
    \/ \E r \in DOMAIN runs : RunWrite(r)
    \/ \E userId \in Owners, id \in DocIds : ReprocessSelect(userId, id)
    \/ \E h \in DOMAIN reps : ReprocessCheckFile(h)
    \/ \E h \in DOMAIN reps : ReprocessReset(h)
    \/ \E userId \in Owners, id \in DocIds : DeleteSelect(userId, id)
    \/ \E h \in DOMAIN dels : DeleteUpdate(h)
    \/ \E h \in DOMAIN dels : DeleteUnlink(h)
    \/ \E userId \in Owners : List(userId)
    \/ \E userId \in Owners, id \in DocIds : Get(userId, id)

Spec == Init /\ [][Next]_vars

\* The same with a store that may refuse an update of a run.
NextFaults ==
    \/ Next
    \/ \E r \in DOMAIN runs : RunUpdateThrows(r)

SpecFaults == Init /\ [][NextFaults]_vars

\* The same with the scheduling of the event loop: a continuation that is
\* ready to run is run, and a store operation that was issued is applied.
Fairness ==
    /\ \A r \in 1..MaxRuns :
         /\ WF_vars(RunSetProcessing(r)) /\ WF_vars(RunExtract(r)) /\ WF_vars(RunOcr(r))
         /\ WF_vars(RunStructured(r)) /\ WF_vars(RunWrite(r))
    /\ \A h \in 1..MaxRuns : WF_vars(ReprocessCheckFile(h)) /\ WF_vars(ReprocessReset(h))
    /\ \A h \in 1..MaxDelete : WF_vars(DeleteUpdate(h)) /\ WF_vars(DeleteUnlink(h))
    /\ \A i \in 1..MaxUploads : WF_vars(UploadHandle(i))

FairSpec == Spec /\ Fairness

\* The API with every caller: the owner of the documents, another user and
\* a caller with no id.
NextCallers ==
    \/ \E form \in AcceptedForms : UploadReceive(form)
    \/ \E i \in DOMAIN ups : UploadHandle(i)
    \/ \E r \in DOMAIN runs : RunSetProcessing(r)
    \/ \E r \in DOMAIN runs : RunExtract(r)
    \/ \E r \in DOMAIN runs : RunOcr(r)
    \/ \E r \in DOMAIN runs : RunStructured(r)
    \/ \E r \in DOMAIN runs : RunWrite(r)
    \/ \E userId \in Callers, id \in DocIds : ReprocessSelect(userId, id)
    \/ \E h \in DOMAIN reps : ReprocessCheckFile(h)
    \/ \E h \in DOMAIN reps : ReprocessReset(h)
    \/ \E userId \in Callers, id \in DocIds : DeleteSelect(userId, id)
    \/ \E h \in DOMAIN dels : DeleteUpdate(h)
    \/ \E h \in DOMAIN dels : DeleteUnlink(h)
    \/ \E userId \in Callers : List(userId)
    \/ \E userId \in Callers, id \in DocIds : Get(userId, id)
    \/ \E userId \in Callers, id \in DocIds : GetFile(userId, id)

SpecCallers == Init /\ [][NextCallers]_vars

\* Upload on its own, by either route and with the requests it refuses, and
\* the runs it starts.
NextUploads ==
    \/ \E form \in UploadForms : UploadReceive(form)
    \/ \E i \in DOMAIN ups : UploadHandle(i)
    \/ \E form \in MultiForms : UploadMultipleReceive(form)
    \/ \E i \in DOMAIN ups : UploadMultipleStep(i)
    \/ \E r \in DOMAIN runs : RunSetProcessing(r)
    \/ \E r \in DOMAIN runs : RunExtract(r)
    \/ \E r \in DOMAIN runs : RunOcr(r)
    \/ \E r \in DOMAIN runs : RunStructured(r)
    \/ \E r \in DOMAIN runs : RunWrite(r)

SpecUploads == Init /\ [][NextUploads]_vars

----------------------------------------------------------------------------
(* The Text Extractor on its own *)

TextLengths == {0, 5, 19, 20, 49, 50}
Paddings == {0, 2}

\* Files as the store can hold them: an empty file has no text in it.
ExtractFiles ==
    {File(2048, ew, eb, ow, ob) : ew \in Paddings, eb \in TextLengths,
                                  ow \in Paddings, ob \in TextLengths}
    \cup {EmptyFile, Missing}

ExtractMimeTypes == {"application/pdf", "image/png", "text/plain"}

Extraction(mimeType, f, g, pc, result) ==
    [mimeType |-> mimeType, f |-> f, g |-> g, pc |-> pc, result |-> result]

\* The file is as it was when OCR opens it, or was removed meanwhile.
InitExtract ==
    /\ docs = <<>> /\ files = [p \in Paths |-> Missing] /\ runs = <<>>
    /\ ups = <<>> /\ reps = <<>> /\ dels = <<>> /\ resp = NoAnswer /\ call = NoCall
    /\ \E mimeType \in ExtractMimeTypes, f \in ExtractFiles, g \in ExtractFiles :
         /\ g \in {f, Missing}
         /\ ext = Extraction(mimeType, f, g, "ready", Thrown)

ExtractCall ==
    /\ ext.pc = "ready"
    /\ ext' = [ext EXCEPT !.pc = "done", !.result = extractText(ext.mimeType, ext.f, ext.g)]
    /\ UNCHANGED <<docs, files, runs, ups, reps, dels, resp, call>>

NextExtract == ExtractCall

SpecExtract == InitExtract /\ [][NextExtract]_vars

----------------------------------------------------------------------------
(* The Structured-Data Extractor on its own *)

ServiceOutcomes ==
    {AIOk(FullJson), AIOk(EmptyJson), AIOk(OddJson), AIOk(JsonNull),
     RateLimit, QuotaMessage, ServerError, BadJson, BadJson429}

RawTexts == {EmptyText, Text("ocr", 3, 9), Text("ocr", 0, 10), Text("emb", 2, 50)}

StructuredCall(rawText, hasKey, promptQuery, outcomes, pc, result) ==
    [rawText |-> rawText, hasKey |-> hasKey, promptQuery |-> promptQuery,
     outcomes |-> outcomes, pc |-> pc, result |-> result]

InitStructured ==
    /\ docs = <<>> /\ files = [p \in Paths |-> Missing] /\ runs = <<>>
    /\ ups = <<>> /\ reps = <<>> /\ dels = <<>> /\ resp = NoAnswer /\ ext = NoExt
    /\ \E rawText \in RawTexts, hasKey \in BOOLEAN, promptQuery \in PromptQueries,
          outcomes \in [1..maxRetries -> ServiceOutcomes] :
         call = StructuredCall(rawText, hasKey, promptQuery, outcomes, "ready",
                               Outcome(Null, 0, <<>>))

StructuredReturn ==
    /\ call.pc = "ready"
    /\ call' = [call EXCEPT !.pc = "done",
                            !.result = extractStructuredData(call.rawText, call.hasKey,
                                                             call.promptQuery, call.outcomes)]
    /\ UNCHANGED <<docs, files, runs, ups, reps, dels, resp, ext>>

NextStructured == StructuredReturn

SpecStructured == InitStructured /\ [][NextStructured]_vars

----------------------------------------------------------------------------
(* Properties *)

Terminal == {"SUCCESS", "FAILED"}

\* Runs of document id that are in flight.
RunsOf(id) == {r \in DOMAIN runs : runs[r].doc = id}
\* Those between their PROCESSING write and their terminal write.
Working(id) == {r \in RunsOf(id) : runs[r].pc # "processing"}

\* C1: in every reachable state every row has extractedJson non-null if and
\* only if its extractionStatus is SUCCESS.
C1_JsonIffSuccess ==
    \A i \in DOMAIN docs :
        ~IsNull(docs[i].extractedJson) <=> docs[i].extractionStatus = "SUCCESS"

\* C2: no two processDocument runs of the same document are ever in flight
\* together.
C2_RunsMutuallyExclusive ==
    \A i \in DOMAIN docs : Cardinality(RunsOf(i)) <= 1

\* C3: no document is left in PROCESSING with no run that will move it on,
\* whatever a step of the run throws, a refused store update included.
C3_NoDocumentLeftProcessing ==
    \A i \in DOMAIN docs :
        docs[i].extractionStatus = "PROCESSING" => Working(i) # {}

\* The step is one of a pipeline run / of a Reprocess handler.
RunStep == runs' # runs /\ reps' = reps
ReprocessStep == reps' # reps

\* C4: a row's extractionStatus changes only along PENDING -> PROCESSING,
\* PROCESSING -> SUCCESS, PROCESSING -> FAILED (by a run) and SUCCESS -> PENDING,
\* FAILED -> PENDING (by Reprocess).
C4_StatusMachine ==
    [][\A i \in DOMAIN docs :
         LET old == docs[i].extractionStatus
             new == docs'[i].extractionStatus
         IN old # new =>
              \/ RunStep /\ old = "PENDING" /\ new = "PROCESSING"
              \/ RunStep /\ old = "PROCESSING" /\ new \in Terminal
              \/ ReprocessStep /\ old \in Terminal /\ new = "PENDING"]_vars

\* The step takes up a Reprocess request of caller userId for document id:
\* its select is answered, by a new handler or by a refusal.
ReprocessTaken(userId, id) ==
    \/ /\ Len(reps') = Len(reps) + 1
       /\ reps'[Len(reps')].userId = userId /\ reps'[Len(reps')].id = id
    \/ /\ reps' = reps /\ runs' = runs
       /\ resp'.op = "reprocess" /\ resp'.userId = userId /\ resp'.id = id

Refused == "Document is already being processed"

Cleared(row) ==
    /\ row.extractionStatus = "PENDING"
    /\ IsNull(row.extractedJson) /\ IsNull(row.summaryText)

\* A Reprocess handler for document id that read the row FAILED and not
\* deleted and found the stored file.
FailedAccepted(id) ==
    \E h \in DOMAIN reps :
        /\ reps[h].id = id /\ reps[h].pc = "updating"
        /\ reps[h].document.extractionStatus = "FAILED"

\* The state a reset of document id leaves: the request answered, the run
\* just called.
JustReset(id) ==
    /\ resp.op = "reprocess" /\ resp.id = id /\ resp.status = 200
    /\ Len(runs) > 0
    /\ runs[Len(runs)].doc = id /\ runs[Len(runs)].pc = "processing"
    /\ runs[Len(runs)].by = "reprocess"

StatusIn(id, statuses) == id \in DOMAIN docs /\ docs[id].extractionStatus \in statuses

C7_DeletedUntouched ==
    [][/\ resp'.op \in {"list", "get"} =>
            \A k \in DOMAIN resp'.documents : IsNull(docs'[resp'.documents[k].id].deletedAt)
       /\ \A i \in DOMAIN docs :
            ~IsNull(docs[i].deletedAt) =>
                ~(ReprocessStep /\ resp'.op = "reprocess" /\ resp'.id = i /\ resp'.status = 200)
      ]_vars

\* C8: the Text Extractor returns a result for every file, and for a missing
\* or empty file the result has method none, an error and no attempt made.
C8_ExtractorNeverThrows ==
    (ext.pc = "done" /\ ext.mimeType \in {"application/pdf", "image/png"}) =>
        /\ ~ext.result.thrown
        /\ (~ext.f.present \/ ext.f.size = 0) =>
              /\ ext.result.method = "none"
              /\ ~IsNull(ext.result.error)
              /\ ext.result.tried = {}

RateLimits == {RateLimit, QuotaMessage}

\* A finished call that had text and a credential to work with.
Called == call.pc = "done" /\ call.hasKey /\ Length(Trim(call.rawText)) >= 10

\* The wait that is to follow a rate limit on attempt n.
Backoff(n) == CASE n = 1 -> 5000 [] n = 2 -> 10000 [] n = 3 -> 20000

Waited(n, ms) == \E k \in DOMAIN call.result.delays : call.result.delays[k] = [after |-> n, ms |-> ms]

\* C9: rate limited on attempts 1 and 2 and answered on attempt 3, the call
\* waits 5000 ms, then 10000 ms, makes 3 AI calls and returns the payload.
C9_TwoRateLimitsThenSuccess ==
    (/\ Called
     /\ call.outcomes[1] \in RateLimits /\ call.outcomes[2] \in RateLimits
     /\ call.outcomes[3] \in {AIOk(FullJson), AIOk(EmptyJson), AIOk(OddJson)})
    => /\ call.result.delays = <<[after |-> 1, ms |-> 5000], [after |-> 2, ms |-> 10000]>>
       /\ call.result.calls = 3
       /\ ~IsNull(call.result.data)
       /\ call.outcomes[3] = AIOk(FullJson) =>
             /\ Val(call.result.data).labs = FullJson.labs
             /\ Val(call.result.data).shortSummary = FullJson.shortSummary
             /\ Val(call.result.data).confidence = FullJson.confidence

C9_Witness ==
    /\ Called
    /\ call.outcomes = <<RateLimit, RateLimit, AIOk(FullJson)>>
    /\ ~IsNull(call.result.data)

\* C10 as stated: at most 3 attempts, and a rate limit on attempt n is
\* followed by a wait of 5000 * 2^(n-1) ms for n = 1, 2, 3.
C10_WaitAfterEveryRateLimit ==
    Called =>
        /\ call.result.calls <= 3
        /\ \A n \in 1..3 :
             (n <= call.result.calls /\ call.outcomes[n] \in RateLimits) => Waited(n, Backoff(n))

\* C10 amended: at most 3 attempts; a rate limit on attempt 1 or 2 is followed
\* by a wait of 5000 ms, 10000 ms and a further attempt; a rate limit on
\* attempt 3 is followed by no wait and the call returns null.
C10_WaitBeforeRetryOnly ==
    Called =>
        /\ call.result.calls <= 3
        /\ \A n \in 1..2 :
             (n <= call.result.calls /\ call.outcomes[n] \in RateLimits)
                => Waited(n, Backoff(n)) /\ call.result.calls > n
        /\ (call.result.calls = 3 /\ call.outcomes[3] \in RateLimits)
                => /\ \A k \in DOMAIN call.result.delays : call.result.delays[k].after < 3
                   /\ IsNull(call.result.data)

C10_Witness ==
    /\ Called
    /\ call.outcomes = <<RateLimit, QuotaMessage, RateLimit>>
    /\ call.result.calls = 3

\* Outcomes of an attempt that fail it.
Failures == {RateLimit, QuotaMessage, ServerError, BadJson, BadJson429, AIOk(JsonNull)}

\* C11: a Structured-Data Extractor call always returns, a payload or null,
\* whatever the text, the prompt store and the AI outcomes; a payload comes
\* from an attempt that did not fail, and the call returns null when its
\* final attempt fails or every attempt fails.
C11_ExtractorReturns ==
    call.pc = "done" =>
        /\ ~call.result.thrown
        /\ IsNull(call.result.data) \/ Val(call.result.data).isObject
        /\ ~IsNull(call.result.data) =>
              /\ call.result.calls \in 1..maxRetries
              /\ call.outcomes[call.result.calls] \notin Failures
        /\ (\A n \in 1..maxRetries : call.outcomes[n] \in Failures) => IsNull(call.result.data)
        /\ (call.result.calls = maxRetries /\ call.outcomes[maxRetries] \in Failures)
              => IsNull(call.result.data)

C11_Witness ==
    /\ Called
    /\ call.promptQuery = "throws"
    /\ call.outcomes = <<ServerError, BadJson, AIOk(JsonNull)>>
    /\ call.result.calls = maxRetries /\ IsNull(call.result.data)

\* C12: with trimmed text shorter than 10 characters, or with no AI
\* credential, the call returns null and makes no AI call.
C12_NoCallWithoutTextOrKey ==
    (call.pc = "done" /\ (Length(Trim(call.rawText)) < 10 \/ ~call.hasKey)) =>
        /\ IsNull(call.result.data)
        /\ call.result.calls = 0
        /\ call.result.delays = <<>>

C12_Witness ==
    /\ call.pc = "done"
    /\ Length(Trim(call.rawText)) >= 10 /\ ~call.hasKey
    /\ call.outcomes[1] = AIOk(FullJson)
    /\ call.result.calls = 0

\* A finished extraction of a file that was there, and not empty, on entry.
Extracted(mimeType) ==
    /\ ext.pc = "done" /\ ext.mimeType = mimeType
    /\ ext.f.present /\ ext.f.size > 0

\* The trimmed length of the text OCR reads.
OcrChars == IF ext.g.present THEN ext.g.ocr.body ELSE 0

\* C13: on the PDF path embedded text of 50 or more trimmed characters is
\* the result, method embedded_text, with OCR not run; 49 or fewer trimmed
\* characters go on to OCR.
C13_EmbeddedThreshold ==
    Extracted("application/pdf") =>
        /\ ext.f.emb.body >= 50 =>
              /\ ext.result.method = "embedded_text"
              /\ ext.result.text = Text("emb", 0, ext.f.emb.body)
              /\ ext.result.tried = {"embedded_text"}
        /\ ext.f.emb.body <= 49 => "ocr" \in ext.result.tried

C13_Witness ==
    /\ Extracted("application/pdf")
    /\ ext.f.emb = Text("emb", 2, 49)
    /\ ext.g = ext.f /\ ext.f.ocr.body = 20
    /\ ext.result.method = "ocr"

\* OCR is run: on the image path always, on the PDF path after too little
\* embedded text.
OcrRun ==
    \/ Extracted("image/png")
    \/ Extracted("application/pdf") /\ ext.f.emb.body <= 49

\* C14: on both paths OCR text of 20 or more trimmed characters is the
\* result, method ocr, and 19 or fewer give method none with an error.
C14_OcrThreshold ==
    OcrRun =>
        /\ OcrChars >= 20 =>
              /\ ext.result.method = "ocr"
              /\ ext.result.text = Text("ocr", 0, OcrChars)
              /\ IsNull(ext.result.error)
        /\ OcrChars <= 19 =>
              /\ ext.result.method = "none"
              /\ ~IsNull(ext.result.error)

C14_Witness ==
    /\ Extracted("image/png")
    /\ ext.g = ext.f /\ ext.f.ocr = Text("ocr", 2, 19)
    /\ ext.result.method = "none"

\* Run r has its Text Extractor result, method none or too little text, and
\* its last update is about to be applied.
NoTextRun(r) ==
    /\ r \in DOMAIN runs
    /\ runs[r].pc = "write" /\ ~runs[r].inCatch /\ runs[r].method = "none"

\* The step applies the last update of run r.
Written(r) == runs' = Remove(runs, r) /\ docs' # docs

ExtractorErrors ==
    {ErrNotFound, ErrEmpty, ErrPdfInsufficient, ErrImageInsufficient, ErrUnsupported}

\* C15: a run whose text extraction gave method none, or text shorter than 10
\* characters, never calls the Structured-Data Extractor and ends with the
\* row FAILED, summaryText the extractor's error or the generic fallback, and
\* extractedJson null.
C15_NoTextFails ==
    [][\A r \in DOMAIN runs :
         /\ (runs[r].pc \in {"extract", "ocr"} /\ Len(runs') = Len(runs)
             /\ runs'[r].pc = "ai")
               => runs'[r].method # "none" /\ Length(runs'[r].trimmedText) >= 10
         /\ (NoTextRun(r) /\ Written(r)) =>
               LET row == docs'[runs[r].doc] IN
               /\ row.extractionStatus = "FAILED"
               /\ \E e \in ExtractorErrors \cup {MsgNoText} : row.summaryText = Some(e)
               /\ IsNull(row.extractedJson)]_vars

\* Run r got its text, the Structured-Data Extractor returned null to it, and
\* its last update is about to be applied.
NoDataRun(r) ==
    /\ r \in DOMAIN runs
    /\ runs[r].pc = "write" /\ ~runs[r].inCatch /\ runs[r].method # "none"
    /\ "extractedJson" \notin DOMAIN runs[r].set

AIFailure == "AI quota exceeded. Please try again later or check your Gemini API billing."

\* C16: a run to which the Structured-Data Extractor returns null (three
\* rate-limited attempts included) ends with the row FAILED and summaryText
\* the fixed AI-failure message; no step of a run answers an HTTP request, and
\* the Upload that started a run has answered, with status PENDING, in the
\* step that started it.
C16_NoDataFails ==
    [][/\ \A r \in DOMAIN runs :
            (runs[r].pc = "ai" /\ Len(runs') = Len(runs) /\ runs'[r] # runs[r]
             /\ IsNull(extractStructuredData(runs[r].trimmedText, TRUE, "row",
                                             <<RateLimit, RateLimit, RateLimit>>).data)
             /\ runs'[r].set.extractionStatus = "FAILED")
            => NoDataRun(r)'
       /\ \A r \in DOMAIN runs :
            (NoDataRun(r) /\ Written(r)) =>
               /\ docs'[runs[r].doc].extractionStatus = "FAILED"
               /\ docs'[runs[r].doc].summaryText = Some(AIFailure)
       /\ (runs' # runs /\ Len(runs') <= Len(runs)) => resp' = NoAnswer
       /\ (Len(runs') = Len(runs) + 1 /\ runs'[Len(runs')].by = "upload") =>
               /\ resp'.op = "upload" /\ resp'.status = 200
               /\ resp'.documents[1].id = runs'[Len(runs')].doc
               /\ resp'.documents[1].extractionStatus = "PENDING"]_vars

\* C16 witness: an uploaded document whose run was answered null has been
\* written FAILED with the AI-failure message.
C16_Witness ==
    /\ runs = <<>> /\ reps = <<>>
    /\ \E i \in DOMAIN docs :
         /\ docs[i].extractionStatus = "FAILED"
         /\ docs[i].summaryText = Some(AIFailure)

FailureReasons == ExtractorErrors \cup {MsgNoText, MsgAIFailed, MsgUnexpected}

\* C17: every FAILED row has summaryText set, to a failure reason, and every
\* SUCCESS row has summaryText equal to the shortSummary of the payload in its
\* extractedJson.
C17_SummaryText ==
    \A i \in DOMAIN docs :
        /\ docs[i].extractionStatus = "FAILED" =>
              /\ ~IsNull(docs[i].summaryText)
              /\ Val(docs[i].summaryText) \in FailureReasons
        /\ docs[i].extractionStatus = "SUCCESS" =>
              /\ ~IsNull(docs[i].extractedJson)
              /\ docs[i].summaryText = Val(docs[i].extractedJson).data.shortSummary

\* C17 witness: a document is SUCCESS, no run in flight, with the AI's
\* summary as summaryText.
C17_Witness ==
    \E i \in DOMAIN docs :
        /\ docs[i].extractionStatus = "SUCCESS"
        /\ docs[i].summaryText = Some("Hemoglobin normal")
        /\ runs = <<>>

\* The step answers an Upload request, by either route, with success.
UploadAnswered == resp'.op \in {"upload", "upload-multiple"} /\ resp'.status = 200

\* The accepted files of the upload request handler stands for.
FilesOf(handler) == IF handler.route = "/upload" THEN 1 ELSE Len(handler.form.files)

\* C18: Upload inserts one PENDING row for each accepted file and starts one
\* run for each row; its answer reports every row as PENDING, whatever the
\* runs have written by then, and is sent with the last run just started.
C18_UploadAnswersPending ==
    [][/\ Len(docs') # Len(docs) =>
            /\ Len(docs') = Len(docs) + 1
            /\ Cleared(docs'[Len(docs')])
            /\ Len(runs') = Len(runs) + 1
            /\ runs'[Len(runs')].doc = docs'[Len(docs')].id
            /\ runs'[Len(runs')].pc = "processing"
       /\ Len(runs') > Len(runs) => Len(docs') = Len(docs) + 1
       /\ UploadAnswered =>
            /\ \E i \in DOMAIN ups :
                 /\ ups' = Remove(ups, i)
                 /\ Len(resp'.documents) = FilesOf(ups[i])
            /\ \A k \in DOMAIN resp'.documents :
                 /\ resp'.documents[k].extractionStatus = "PENDING"
                 /\ resp'.documents[k].id \in DOMAIN docs'
                 /\ docs'[resp'.documents[k].id].userId = resp'.userId
                 /\ \A j \in DOMAIN resp'.documents :
                      resp'.documents[j].id = resp'.documents[k].id => j = k
            /\ resp'.documents[Len(resp'.documents)].id = Len(docs')
            /\ runs'[Len(runs')].doc = Len(docs') /\ runs'[Len(runs')].pc = "processing"
      ]_vars

\* C18 witness: /upload-multiple answers for two files when the run of the
\* first has already written its terminal status.
C18_Witness ==
    /\ resp.op = "upload-multiple" /\ resp.status = 200
    /\ Len(resp.documents) = 2
    /\ docs[resp.documents[1].id].extractionStatus \in Terminal
    /\ docs[resp.documents[2].id].extractionStatus = "PENDING"

\* C19: an Upload request refused for a missing userId or for having no file
\* inserts no row and starts no run, and for a missing userId every file
\* stored for the request is removed.
C19_RejectedUpload ==
    [][(resp'.op \in {"upload", "upload-multiple"} /\ resp'.status = 400) =>
          /\ docs' = docs /\ runs' = runs
          /\ \E i \in DOMAIN ups :
               /\ ups' = Remove(ups, i)
               /\ \/ ups[i].form.userId = NoUser
                  \/ FilesOf(ups[i]) = 0
                  \/ ups[i].route = "/upload" /\ IsNull(ups[i].form.file)
               /\ resp'.message = "MISSING_USER_ID" =>
                    /\ HeldBy(ups[i]) # {}
                    /\ \A p \in HeldBy(ups[i]) : files[p].present /\ ~files'[p].present
      ]_vars

\* C19 witness: /upload-multiple has refused a form with no userId and the
\* store holds no file.
C19_Witness ==
    /\ resp.op = "upload-multiple" /\ resp.status = 400 /\ resp.message = "MISSING_USER_ID"
    /\ \A p \in Paths : ~files[p].present
    /\ docs = <<>> /\ runs = <<>>

\* C20: a request of a user who does not own a document is answered 404 by
\* Get, File retrieval, Reprocess and Delete, changes no row, no file and no
\* run, is never taken up by a handler, and List for that user does not hold
\* the document.
C20_OtherUserIsolated ==
    [][\A id \in DOMAIN docs : \A userId \in Users \ {docs[id].userId} :
         /\ (/\ resp'.userId = userId /\ resp'.id = id
             /\ resp'.op \in {"get", "file", "reprocess", "delete"})
            => /\ resp'.status = 404
               /\ resp'.documents = <<>>
               /\ docs' = docs /\ files' = files /\ runs' = runs
         /\ (resp'.userId = userId /\ resp'.op = "list")
            => \A k \in DOMAIN resp'.documents : resp'.documents[k].id # id
         /\ \A h \in DOMAIN reps' : ~(reps'[h].userId = userId /\ reps'[h].id = id)
         /\ \A h \in DOMAIN dels' : ~(dels'[h].userId = userId /\ dels'[h].id = id)
      ]_vars

\* C20 witness: another user's Delete of a SUCCESS document of u1, stored
\* file in place, has been answered 404.
C20_Witness ==
    /\ resp.op = "delete" /\ resp.userId = "u2" /\ resp.status = 404
    /\ resp.id \in DOMAIN docs
    /\ docs[resp.id].userId = "u1"
    /\ docs[resp.id].extractionStatus = "SUCCESS"
    /\ IsNull(docs[resp.id].deletedAt)
    /\ existsSync(docs[resp.id].storagePath)

FileGone == "Original file not found on server"

\* The step is the file check of Reprocess handler h.
FileChecked(h) ==
    /\ h \in DOMAIN reps
    /\ reps[h].pc = "selected"
    /\ reps' = Remove(reps, h) \/ reps' = [reps EXCEPT ![h].pc = "updating"]

\* C21: a Reprocess request that finds the stored file of its document gone
\* is answered 404, changes no row (status, extractedJson and summaryText stay)
\* and starts no run, and the request is over; so is a request that arrives
\* when the file is gone.
C21_MissingFileRejected ==
    [][/\ \A h \in DOMAIN reps :
            (FileChecked(h) /\ ~existsSync(reps[h].document.storagePath)) =>
               /\ resp' = Answer("reprocess", reps[h].userId, reps[h].id, 404, FileGone, <<>>)
               /\ reps' = Remove(reps, h)
               /\ docs' = docs /\ runs' = runs
       /\ \A i \in DOMAIN docs :
            (~existsSync(docs[i].storagePath) /\ ReprocessTaken(docs[i].userId, i)) =>
               /\ resp'.status = 404
               /\ reps' = reps /\ docs' = docs /\ runs' = runs
       /\ (resp'.op = "reprocess" /\ resp'.status = 404) => docs' = docs /\ runs' = runs
      ]_vars

\* C21 witness: Reprocess of a SUCCESS document has been answered 404 for the
\* missing file; the row still holds its payload and no run is in flight.
C21_Witness ==
    /\ resp.op = "reprocess" /\ resp.status = 404 /\ resp.message = FileGone
    /\ docs[resp.id].extractionStatus = "SUCCESS"
    /\ ~IsNull(docs[resp.id].extractedJson) /\ ~IsNull(docs[resp.id].summaryText)
    /\ ~existsSync(docs[resp.id].storagePath)
    /\ runs = <<>> /\ reps = <<>>

\* A Delete request for document id was accepted and is in flight.
DeleteAccepted(id) == \E h \in DOMAIN dels : dels[h].id = id

\* The state the last step of a Delete of document id leaves.
DeleteDone(id) ==
    /\ id \in DOMAIN docs
    /\ resp = Answer("delete", docs[id].userId, id, 200, "", <<>>)
    /\ ~IsNull(docs[id].deletedAt)

\* C22: Delete of a non-deleted document by its owner is never refused; once
\* taken up it sets deletedAt and answers success, whether the stored file is
\* removed or not; and no step of any handler or run removes a row.
C22_DeleteSoftOnly ==
    /\ [][/\ Len(docs') >= Len(docs)
          /\ \A i \in DOMAIN docs : docs'[i].id = docs[i].id
          /\ \A i \in DOMAIN docs :
               (resp'.op = "delete" /\ resp'.id = i /\ resp'.userId = docs[i].userId) =>
                  /\ ~IsNull(docs'[i].deletedAt)
                  /\ \/ resp'.status = 200
                     \/ resp'.status = 404 /\ ~IsNull(docs[i].deletedAt) /\ dels' = dels
          /\ \A h \in DOMAIN dels :
               (dels[h].pc = "unlinking" /\ dels' = Remove(dels, h)) =>
                  /\ resp' = Answer("delete", dels[h].userId, dels[h].id, 200, "", <<>>)
                  /\ ~IsNull(docs'[dels[h].id].deletedAt)
         ]_vars
    /\ \A id \in DocIds : DeleteAccepted(id) ~> DeleteDone(id)

\* C22 witness: a Delete has answered success with the stored file still in
\* place; the row is there, deletedAt set.
C22_Witness ==
    /\ resp.op = "delete" /\ resp.status = 200
    /\ resp.id \in DOMAIN docs
    /\ ~IsNull(docs[resp.id].deletedAt)
    /\ existsSync(docs[resp.id].storagePath)

\* The columns captured when the row is created.
Metadata ==
    {"id", "userId", "filename", "mimeType", "sizeBytes", "storagePath", "docType", "uploadedAt"}

\* C23: no step of a pipeline run, Reprocess, Delete, List or Get changes the
\* id, userId, filename, mimeType, sizeBytes, storagePath, docType or
\* uploadedAt of a row that exists.
C23_MetadataImmutable ==
    [][\A i \in DOMAIN docs :
         /\ i \in DOMAIN docs'
         /\ \A c \in Metadata : docs'[i][c] = docs[i][c]]_vars

\* C23 witness: a document that was processed, reprocessed and deleted still
\* has the metadata its upload gave it.
C23_Witness ==
    \E i \in DOMAIN docs :
        /\ ~IsNull(docs[i].deletedAt)
        /\ docs[i].extractionStatus \in Terminal
        /\ resp.op = "delete" /\ resp.status = 200
        /\ \E r \in DOMAIN runs : runs[r].doc = i /\ runs[r].by = "reprocess"
        /\ \A c \in Metadata :
             docs[i][c] = NewRow(i, "u1", "scan.pdf", docs[i].storagePath, "application/pdf",
                                 2048, "OTHER")[c]

\* The payload the Structured-Data Extractor returns for the AI's answer.
Payload == Backfill(FullJson)

ExtractionMethods == {"embedded_text", "ocr"}

\* The update a run issues on a payload: the three columns together.
SuccessUpdate(payload, method) ==
    [extractionStatus |-> "SUCCESS",
     extractedJson |-> Some([data |-> payload, extractionMethod |-> method]),
     summaryText |-> payload.shortSummary]

\* Run r holds a payload and its last update is about to be applied.
SuccessRun(r) ==
    /\ r \in DOMAIN runs
    /\ runs[r].pc = "write" /\ ~runs[r].inCatch
    /\ runs[r].set.extractionStatus = "SUCCESS"

\* C24: a run to which the Structured-Data Extractor returns a payload issues
\* one update with status SUCCESS, extractedJson the payload with the method
\* (embedded_text or ocr) embedded and summaryText the payload's shortSummary;
\* the update puts the three on the row in one step, and the run ends.
C24_PayloadSucceeds ==
    [][/\ \A r \in DOMAIN runs :
            (runs[r].pc = "ai" /\ Len(runs') = Len(runs) /\ runs'[r] # runs[r]) =>
               /\ runs'[r].pc = "write"
               /\ runs[r].method \in ExtractionMethods
               /\ \/ runs'[r].set = SuccessUpdate(Payload, runs[r].method)
                  \/ runs'[r].set.extractionStatus = "FAILED"
       /\ \A r \in DOMAIN runs :
            (SuccessRun(r) /\ runs' = Remove(runs, r)) =>
               LET row == docs'[runs[r].doc] IN
               /\ row.extractionStatus = "SUCCESS"
               /\ row.extractedJson = Some([data |-> Payload, extractionMethod |-> runs[r].method])
               /\ row.summaryText = Payload.shortSummary
               /\ runs[r].method \in ExtractionMethods
       /\ \A i \in DOMAIN docs :
            (docs'[i].extractionStatus = "SUCCESS" /\ docs[i].extractionStatus # "SUCCESS") =>
               /\ ~IsNull(docs'[i].extractedJson)
               /\ Val(docs'[i].extractedJson).extractionMethod \in ExtractionMethods
               /\ docs'[i].summaryText = Val(docs'[i].extractedJson).data.shortSummary
      ]_vars

\* C24 witness: the run of a scanned PDF has written SUCCESS with the payload
\* read by OCR, and no run of the document is left.
C24_Witness ==
    \E i \in DOMAIN docs :
        /\ docs[i].extractionStatus = "SUCCESS"
        /\ docs[i].extractedJson = Some([data |-> Payload, extractionMethod |-> "ocr"])
        /\ docs[i].summaryText = Some("Hemoglobin normal")
        /\ RunsOf(i) = {} /\ reps = <<>>

\* The step moves run r on, from stage `from` to stage `to`.
Moves(r, from, to) ==
    /\ Len(runs') = Len(runs)
    /\ runs[r].pc \in from /\ runs'[r].pc \in to
    /\ runs'[r].pc # runs[r].pc

Stages == {"processing", "extract", "ocr", "ai", "write"}

\* What C25 says of the stages before the terminal write: a run starts with
\* its PROCESSING write, text extraction starts with that write applied, and
\* the Structured-Data Extractor is called only from text extraction, with a
\* method other than none.
StagesInOrder ==
    /\ Len(runs') > Len(runs) => runs'[Len(runs')].pc = "processing"
    /\ \A r \in DOMAIN runs :
         /\ Moves(r, {"processing"}, Stages) =>
               /\ runs'[r].pc = "extract"
               /\ docs'[runs[r].doc].extractionStatus = "PROCESSING"
         /\ Moves(r, Stages, {"extract"}) => runs[r].pc = "processing"
         /\ Moves(r, Stages, {"ocr"}) => runs[r].pc = "extract"
         /\ Moves(r, Stages, {"ai"}) =>
               /\ runs[r].pc \in {"extract", "ocr"}
               /\ runs'[r].method \in {"embedded_text", "ocr"}
               /\ docs' = docs
    /\ \A i \in DOMAIN docs :
         (/\ docs'[i].extractionStatus \in Terminal
          /\ \/ docs'[i].extractionStatus # docs[i].extractionStatus
             \/ docs'[i].extractedJson # docs[i].extractedJson
             \/ docs'[i].summaryText # docs[i].summaryText) =>
            \E r \in RunsOf(i) : runs[r].pc = "write" /\ runs' = Remove(runs, r)

\* C25 as stated: the stages in order, and the terminal write is issued only
\* after the Structured-Data Extractor has returned.
C25_WriteAfterStructuredOnly ==
    [][/\ StagesInOrder
       /\ \A r \in DOMAIN runs : Moves(r, Stages, {"write"}) => runs[r].pc = "ai"]_vars

\* C25 amended: the stages in order, and the terminal write is issued only
\* after the Structured-Data Extractor has returned or, with that extractor
\* never called, after text extraction has ended with method none or thrown.
C25_StagesSequential ==
    [][/\ StagesInOrder
       /\ \A r \in DOMAIN runs :
            Moves(r, Stages, {"write"}) =>
               \/ runs[r].pc = "ai"
               \/ /\ runs[r].pc \in {"extract", "ocr"}
                  /\ runs'[r].method = "none"
                  /\ runs'[r].set.extractionStatus = "FAILED"]_vars

\* C25 witness: a run is about to write FAILED for want of text, the
\* Structured-Data Extractor never called, its document PROCESSING; and
\* another run is about to write what that extractor returned.
C25_Witness ==
    /\ \E r \in DOMAIN runs :
         /\ NoTextRun(r)
         /\ docs[runs[r].doc].extractionStatus = "PROCESSING"
    /\ \E r \in DOMAIN runs : SuccessRun(r)

\* The trimmed partial texts of a PDF extraction.
PartialEmbedded == Trim(ext.f.emb)
PartialOcr == IF ext.g.present THEN Trim(ext.g.ocr) ELSE EmptyText

\* C26: when the embedded text and the OCR text of a PDF are both too short,
\* the result has method none and its text is the longer of the two trimmed
\* partial texts.
C26_LongerPartialText ==
    (/\ Extracted("application/pdf")
     /\ Length(PartialEmbedded) < MinEmbeddedChars /\ Length(PartialOcr) < MinOcrChars)
    => /\ ext.result.method = "none"
       /\ ext.result.text \in {PartialEmbedded, PartialOcr}
       /\ Length(ext.result.text) >= Length(PartialEmbedded)
       /\ Length(ext.result.text) >= Length(PartialOcr)

\* C27: in every reachable state a PENDING row has extractedJson and
\* summaryText null; a row becomes PENDING only by its creation or by the
\* reset of a Reprocess, which leaves it cleared in that same step.
C27_PendingIsCleared ==
    /\ [](\A i \in DOMAIN docs : docs[i].extractionStatus = "PENDING" => Cleared(docs[i]))
    /\ [][\A i \in DOMAIN docs' :
            docs'[i].extractionStatus = "PENDING" =>
               \/ i \in DOMAIN docs /\ docs'[i].extractionStatus = docs[i].extractionStatus
               \/ i \notin DOMAIN docs /\ Cleared(docs'[i]) /\ Len(docs') = Len(docs) + 1
               \/ /\ ReprocessStep /\ resp'.op = "reprocess" /\ resp'.id = i
                  /\ resp'.status = 200 /\ Cleared(docs'[i])]_vars

\* C27 witness: Reprocess has reset a document to PENDING, cleared, while an
\* earlier run of it holds a payload it is about to write.
C27_Witness ==
    /\ resp.op = "reprocess" /\ resp.status = 200
    /\ Cleared(docs[resp.id])
    /\ \E r \in RunsOf(resp.id) : SuccessRun(r)

\* C28: Reprocess refuses for its status a PROCESSING document only. A request
\* for a non-deleted document that is PENDING, SUCCESS or FAILED is taken up;
\* with the file in place it goes on to the reset, and the reset writes the
\* row PENDING, cleared, and starts one more run of the document beside the
\* runs in flight.
C28_PendingReprocessed ==
    [][/\ \A i \in DOMAIN docs :
            (/\ docs[i].extractionStatus # "PROCESSING" /\ IsNull(docs[i].deletedAt)
             /\ ReprocessTaken(docs[i].userId, i))
            => /\ reps' = Append(reps, Request(docs[i].userId, i, "selected", docs[i]))
               /\ resp' = NoAnswer
       /\ \A h \in DOMAIN reps :
            (FileChecked(h) /\ existsSync(reps[h].document.storagePath)) =>
               /\ reps' = [reps EXCEPT ![h].pc = "updating"]
               /\ resp' = NoAnswer
       /\ \A h \in DOMAIN reps :
            (reps[h].pc = "updating" /\ reps' = Remove(reps, h)) =>
               /\ Cleared(docs'[reps[h].id])
               /\ Len(runs') = Len(runs) + 1
               /\ SubSeq(runs', 1, Len(runs)) = runs
               /\ runs'[Len(runs')].doc = reps[h].id
               /\ runs'[Len(runs')].pc = "processing"
               /\ resp'.op = "reprocess" /\ resp'.id = reps[h].id /\ resp'.status = 200
      ]_vars

\* C28 witness: Reprocess of a document whose first run has not yet written
\* PROCESSING has answered success; the row is PENDING and two runs of the
\* document are in flight, the upload's and the reprocess's.
C28_Witness ==
    /\ JustReset(resp.id)
    /\ Cleared(docs[resp.id])
    /\ Cardinality(RunsOf(resp.id)) = 2
    /\ \E r \in RunsOf(resp.id) : runs[r].by = "upload" /\ runs[r].pc = "processing"

\* Failures of an attempt that are no rate limit: a server error, an answer
\* that is no valid JSON, an answer that is no JSON object.
OtherFailures == Failures \ RateLimits

RECURSIVE TotalWait(_)
TotalWait(delays) ==
    IF delays = <<>> THEN 0 ELSE Head(delays).ms + TotalWait(Tail(delays))

\* C29: a failure that is no rate limit on attempt 1 or 2 is followed at once
\* by the next attempt, with no wait; and whatever the outcomes a call makes
\* at most 3 AI requests and waits at most 15000 ms, never after the third.
C29_OtherFailuresRetriedAtOnce ==
    Called =>
        /\ call.result.calls <= 3
        /\ TotalWait(call.result.delays) <= 15000
        /\ \A k \in DOMAIN call.result.delays : call.result.delays[k].after < 3
        /\ \A n \in 1..2 :
             (n <= call.result.calls /\ call.outcomes[n] \in OtherFailures) =>
                /\ call.result.calls > n
                /\ \A k \in DOMAIN call.result.delays : call.result.delays[k].after # n

PipelineColumns == {"extractionStatus", "extractedJson", "summaryText"}

\* C30: a step that changes deletedAt is a step of Delete and changes none of
\* extractionStatus, extractedJson, summaryText; a step that changes one of
\* those three is no step of Delete and leaves deletedAt alone; deletedAt once
\* set stays as set; and the terminal update of a run is applied to its row
\* whether deletedAt is set or not.
C30_DisjointFields ==
    [][/\ \A i \in DOMAIN docs :
            /\ docs'[i].deletedAt # docs[i].deletedAt =>
                  /\ dels' # dels /\ runs' = runs /\ reps' = reps
                  /\ \A c \in PipelineColumns : docs'[i][c] = docs[i][c]
            /\ (\E c \in PipelineColumns : docs'[i][c] # docs[i][c]) =>
                  /\ dels' = dels
                  /\ docs'[i].deletedAt = docs[i].deletedAt
            /\ ~IsNull(docs[i].deletedAt) => docs'[i].deletedAt = docs[i].deletedAt
       /\ dels' # dels =>
            \A i \in DOMAIN docs : \A c \in PipelineColumns : docs'[i][c] = docs[i][c]
       /\ \A r \in DOMAIN runs :
            (runs[r].pc = "write" /\ runs' = Remove(runs, r)) =>
               /\ runs[r].set.extractionStatus \in Terminal
               /\ \A c \in DOMAIN runs[r].set : docs'[runs[r].doc][c] = runs[r].set[c]
               /\ docs'[runs[r].doc].deletedAt = docs[runs[r].doc].deletedAt
      ]_vars

\* C30 witness: a scanned PDF was deleted, and its file removed, while its
\* run was between the embedded text and OCR; the run has since written
\* FAILED, for the text OCR could not read, to the soft-deleted row.
C30_Witness ==
    \E i \in DOMAIN docs :
        /\ ~IsNull(docs[i].deletedAt)
        /\ docs[i].filename = "scan.pdf"
        /\ docs[i].extractionStatus = "FAILED"
        /\ docs[i].summaryText = Some(ErrPdfInsufficient)
        /\ RunsOf(i) = {}

====
